---------------------------- MODULE Spec2Model ----------------------------
(***************************************************************************)
(* A model of two parts of the buttplug device stack:                      *)
(*                                                                         *)
(*   - GenericCommandManager (device/protocol/generic_command_manager.rs): *)
(*     quantizes VibrateCmd / RotateCmd requests against the step counts   *)
(*     of the device and suppresses values the device already holds;       *)
(*   - WebsocketServerHardware and run_connection_loop                     *)
(*     (server/device/hardware/communication/websocket_server/             *)
(*     websocket_server_hardware.rs): the per-device transport session.    *)
(*                                                                         *)
(* The two parts share no state.  SpecGCM runs the command manager and     *)
(* leaves the session idle; SpecSubscription, SpecLink, SpecSequential,    *)
(* SpecSession and SpecListenerFair run the session and leave the command  *)
(* manager as constructed.                                                 *)
(***************************************************************************)
EXTENDS Integers, Sequences, FiniteSets, TLC

(***************************************************************************)
(* Bounds of the model.                                                    *)
(***************************************************************************)
\* Largest size of a modelled descriptor: its vibrators, rotators and linear
\* actuators together, an entry that gives no counts counting as one.
MaxFeatures == 2
\* Largest number of subcommands of a modelled VibrateCmd / RotateCmd.
MaxCmds == 2
\* Largest number of futures of the session that are pending at one time.
MaxPending == 2
\* Largest number of subscribe() futures that run to their token in one behaviour.
MaxTokens == 2
\* Largest number of binary frames the socket delivers in one behaviour.
MaxFrames == 2
\* Largest number of write_value() calls in one behaviour.
MaxWrites == 3
\* Largest pong_count the model follows (u32 in the code).
MaxPongs == 2
\* The capacity of the broadcast channels: 256 in the code (lines 184 and
\* 186), scaled down so that a lagging receiver is within reach.
ChannelCapacity == 1
\* The capacity of the mpsc channel of outgoing writes: 256 in the code (line
\* 183), scaled down so that a full queue is within reach.
OutgoingCapacity == 2

\* The step counts of a modelled device with n features of a kind: 20 (the
\* step count of the repository's tests) and 3 (which the speed grid does not
\* divide, so truncation shows) in turn.
StepCounts(n) == [i \in 1..n |-> IF i % 2 = 1 THEN 20 ELSE 3]

\* The fractional speeds of the modelled requests, as <<numerator, denominator>>.
\* Every denominator is a power of two, so the f64 the code reads is the
\* fraction itself and its product with a step count is exact.
Speeds == {<<0, 1>>, <<1, 2>>, <<3, 4>>}

\* The speeds of the modelled RotateCmd requests, which also carry a direction.
RotateSpeeds == {<<0, 1>>, <<3, 4>>}

(***************************************************************************)
(* Option<T>: None is the empty tuple, Some(x) the one-element tuple.      *)
(***************************************************************************)
None == <<>>
Some(x) == <<x>>
IsSome(o) == Len(o) = 1

Kinds == {"VibrateCmd", "RotateCmd", "LinearCmd"}

VARIABLES
  \* ---- GenericCommandManager ----
  attributes,             \* the MessageAttributesMap given to new()
  sent_vibration,
  sent_rotation,
  vibrations,             \* Vec<u32>, index i of the code is position i+1
  vibration_step_counts,
  rotations,              \* Vec<(u32, bool)>
  rotation_step_counts,
  stop_commands,
  last,                   \* the last call on the manager: its arguments, its
                          \* result and the state it started from
  \* ---- WebsocketServerHardware ----
  connected,              \* Arc<AtomicBool>
  subscribed,             \* Arc<AtomicBool>
  subscribe_token,        \* Arc<Mutex<Option<CancellationToken>>>
  cancelled,              \* the cancellation tokens cancel() was called on
  tokens_made,            \* how many times CancellationToken::new() has run
  futures,                \* the futures the methods returned, not yet complete
  listeners,              \* the tasks subscribe() spawned, exited ones too
  \* ---- run_connection_loop ----
  loop_running,           \* FALSE once run_connection_loop has returned
  pong_count,
  outgoing,               \* the mpsc channel outgoing_sender -> request_receiver
  frames_in,              \* how many binary frames the socket has delivered
  writes_made,            \* how many write_value futures were made
  wire,                   \* the frames the loop sent on the socket, in order
  events,                 \* the HardwareEvents sent on device_event_sender
  history,                \* what has happened on the link so far (see LinkHistory)
  hw_last                 \* the last step of the session: which, and its result

gcm_vars == <<attributes, sent_vibration, sent_rotation, vibrations,
              vibration_step_counts, rotations, rotation_step_counts,
              stop_commands, last>>

session_vars == <<connected, subscribed, subscribe_token, cancelled, tokens_made,
                  futures, listeners>>

loop_vars == <<loop_running, pong_count, outgoing, frames_in, writes_made, wire, events,
               history>>

hw_vars == <<session_vars, loop_vars, hw_last>>

vars == <<gcm_vars, hw_vars>>

(***************************************************************************)
(* GenericCommandManager::new                                              *)
(***************************************************************************)
\* vec![zero; count] when the kind has attributes with a feature_count.
FeatureVec(attrs, kind, zero) ==
  IF IsSome(attrs[kind]) /\ IsSome(attrs[kind][1].feature_count)
    THEN [i \in 1..attrs[kind][1].feature_count[1] |-> zero]
    ELSE <<>>

\* step_counts.clone() when the kind has attributes with a step_count.
StepVec(attrs, kind) ==
  IF IsSome(attrs[kind]) /\ IsSome(attrs[kind][1].step_count)
    THEN attrs[kind][1].step_count[1]
    ELSE <<>>

ZeroSpeed == <<0, 1>>

\* The stop command of VibrateCmd: one VibrateSubcommand(i, 0.0) per vibrator.
VibrateStop(n) ==
  [cmd |-> "VibrateCmd",
   subcommands |-> [i \in 1..n |-> [index |-> i - 1, speed |-> ZeroSpeed]]]

\* The stop command of RotateCmd: one RotationSubcommand(i, 0.0, false) per rotator.
RotateStop(n) ==
  [cmd |-> "RotateCmd",
   subcommands |-> [i \in 1..n |->
                      [index |-> i - 1, speed |-> ZeroSpeed, clockwise |-> FALSE]]]

\* A LinearCmd entry of the descriptor pushes no stop command (a plausible
\* slip would push one, as for the other two kinds).
StopCommandsWithLinear(attrs) ==
  (IF IsSome(attrs["VibrateCmd"])
     THEN <<VibrateStop(Len(FeatureVec(attrs, "VibrateCmd", 0)))>> ELSE <<>>)
  \o (IF IsSome(attrs["RotateCmd"])
        THEN <<RotateStop(Len(FeatureVec(attrs, "RotateCmd", <<0, TRUE>>)))>> ELSE <<>>)
  \o (IF IsSome(attrs["LinearCmd"])
        THEN <<[cmd |-> "LinearCmd",
                subcommands |-> [i \in 1..Len(FeatureVec(attrs, "LinearCmd", <<0, 0>>)) |->
                                   [index |-> i - 1, speed |-> ZeroSpeed]]]>>
        ELSE <<>>)

\* The stop commands built by new(): Vibrate first, then Rotate.
StopCommands(attrs) ==
  (IF IsSome(attrs["VibrateCmd"])
     THEN <<VibrateStop(Len(FeatureVec(attrs, "VibrateCmd", 0)))>> ELSE <<>>)
  \o (IF IsSome(attrs["RotateCmd"])
        THEN <<RotateStop(Len(FeatureVec(attrs, "RotateCmd", <<0, TRUE>>)))>> ELSE <<>>)

\* The fields of the manager new() returns.
GenericCommandManager_new(attrs) ==
  [sent_vibration |-> FALSE,
   sent_rotation |-> FALSE,
   vibrations |-> FeatureVec(attrs, "VibrateCmd", 0),
   rotations |-> FeatureVec(attrs, "RotateCmd", <<0, TRUE>>),
   vibration_step_counts |-> StepVec(attrs, "VibrateCmd"),
   rotation_step_counts |-> StepVec(attrs, "RotateCmd"),
   stop_commands |-> StopCommands(attrs)]

(***************************************************************************)
(* The descriptors of the model.  A present kind either gives no counts    *)
(* (feature_count and step_count None: no features) or a feature_count and *)
(* one step count per feature, the shape the device configuration has.     *)
(***************************************************************************)
NoCounts == Some([feature_count |-> None, step_count |-> None])

\* The entries of one kind: none, one without counts, or n >= 1 features.
AttrChoices(max) ==
  {None, NoCounts}
  \cup {Some([feature_count |-> Some(n), step_count |-> Some(StepCounts(n))]) : n \in 1..max}

AttrSize(a) ==
  IF a = None THEN 0 ELSE IF a = NoCounts THEN 1 ELSE a[1].feature_count[1]

Descriptors ==
  {d \in [Kinds -> AttrChoices(MaxFeatures)] :
     /\ AttrSize(d["VibrateCmd"]) + AttrSize(d["RotateCmd"]) + AttrSize(d["LinearCmd"])
          <= MaxFeatures
     /\ AttrSize(d["LinearCmd"]) <= 1}

(***************************************************************************)
(* Quantization, lines 124 and 186:                                        *)
(*   (speed * step_count[index] as f64) as u32                             *)
(* `as u32` truncates toward zero.                                         *)
(***************************************************************************)
\* Rounding to the nearest step instead of truncating.
QuantizeRound(speed, steps) == (2 * speed[1] * steps + speed[2]) \div (2 * speed[2])

Quantize(speed, steps) == (speed[1] * steps) \div speed[2]

\* Lines 115 and 178: index >= self.vibrations.len()
IndexOutOfRange(index, len) == index >= len

\* Leaving the loop on a bad index without reporting it.
BadIndexBreak(acc) == acc

\* Lines 116-121 and 179-184: return Err(..) from inside the loop.  What the
\* loop wrote before stays written.
BadIndex(acc) == [acc EXCEPT !.err = TRUE]

(***************************************************************************)
(* GenericCommandManager::update_vibration                                 *)
(***************************************************************************)
\* Resending only on a changed value, also for the first command.
VibrateSendNoFirst(sent, speed, old, match_all) == speed # old \/ match_all

\* Resending only on a changed value, also under match_all.
VibrateSendNoMatchAll(sent, speed, old, match_all) == ~sent \/ speed # old

\* Line 128: !self.sent_vibration || speed != self.vibrations[index] || match_all
VibrateSend(sent, speed, old, match_all) == ~sent \/ speed # old \/ match_all

\* Counting every sent slot as a change.
VibrateChangedAlways(sent, speed, old) == TRUE

\* Line 136: speed != self.vibrations[index] || !self.sent_vibration
VibrateChanged(sent, speed, old) == speed # old \/ ~sent

\* Filling the result slot without storing the value sent.
VibrateWriteNoStore(acc, index, speed, changed) ==
  [acc EXCEPT !.changed_value = @ \/ changed,
              !.result[index + 1] = Some(speed)]

\* Lines 136-140: changed_value, self.vibrations[index] and result[index].
VibrateWrite(acc, index, speed, changed) ==
  [acc EXCEPT !.changed_value = @ \/ changed,
              !.vibrations[index + 1] = speed,
              !.result[index + 1] = Some(speed)]

\* The loop of lines 111-142 from subcommand k on.  acc holds the locals and
\* the vector written so far: vibrations, result, changed_value, and err once
\* the index check has returned from the function.
RECURSIVE VibrateLoop(_, _, _, _)
VibrateLoop(speeds, k, acc, ctx) ==
  IF k > Len(speeds) THEN acc
  ELSE LET index == speeds[k].index IN
    IF IndexOutOfRange(index, Len(acc.vibrations))
      THEN BadIndex(acc)
      ELSE LET speed == Quantize(speeds[k].speed, ctx.step_counts[index + 1])
               old == acc.vibrations[index + 1]
           IN IF VibrateSend(ctx.sent, speed, old, ctx.match_all)
                THEN VibrateLoop(speeds, k + 1,
                       VibrateWrite(acc, index, speed,
                                    VibrateChanged(ctx.sent, speed, old)),
                       ctx)
                ELSE VibrateLoop(speeds, k + 1, acc, ctx)

\* Returning the mapping also when nothing changed.
VibrateReturnAlways(changed_value, result) == [kind |-> "some", val |-> result]

\* Lines 147-151: Ok(None) when no value changed, else Ok(Some(result)).
VibrateReturn(changed_value, result) ==
  IF ~changed_value THEN [kind |-> "none", val |-> <<>>]
                    ELSE [kind |-> "some", val |-> result]

Err == [kind |-> "err", val |-> <<>>]

\* The state a call starts from, kept with the call in `last`.
Snapshot ==
  [sent_vibration |-> sent_vibration, sent_rotation |-> sent_rotation,
   vibrations |-> vibrations, rotations |-> rotations]

\* Whether this call repeats the call before it: the same operation with the
\* same message, the call before having been accepted.
Repeats(op, msg) ==
  IF last.op = op THEN last.msg = msg /\ last.res.kind # "err" ELSE FALSE

\* No call on record: the manager as constructed, or the record dropped.
NoCall(op) ==
  [op |-> op, msg |-> <<>>, match_all |-> FALSE, res |-> [kind |-> "none", val |-> <<>>],
   pre |-> [sent_vibration |-> FALSE, sent_rotation |-> FALSE,
            vibrations |-> <<>>, rotations |-> <<>>],
   repeat |-> FALSE, prev_fresh |-> FALSE]

FreshState(st) ==
  /\ ~st.sent_vibration /\ ~st.sent_rotation
  /\ st.vibrations = [i \in 1..Len(st.vibrations) |-> 0]
  /\ st.rotations = [i \in 1..Len(st.rotations) |-> <<0, TRUE>>]

Call(op, msg, match_all, res) ==
  [op |-> op, msg |-> msg, match_all |-> match_all, res |-> res, pre |-> Snapshot,
   repeat |-> Repeats(op, msg),
   prev_fresh |-> Repeats(op, msg) /\ FreshState(last.pre)]

\* Setting sent_vibration before the request is validated.
update_vibration_sent_early(msg, match_all) ==
  LET r == VibrateLoop(msg, 1,
             [vibrations |-> vibrations, result |-> [i \in 1..Len(vibrations) |-> None],
              changed_value |-> FALSE, err |-> FALSE],
             [sent |-> sent_vibration, match_all |-> match_all,
              step_counts |-> vibration_step_counts])
  IN /\ sent_vibration' = TRUE
     /\ vibrations' = IF Len(msg) = 0 THEN vibrations ELSE r.vibrations
     /\ last' = Call("update_vibration", msg, match_all,
                     IF Len(msg) = 0 \/ r.err THEN Err
                     ELSE VibrateReturn(r.changed_value, r.result))
     /\ UNCHANGED <<attributes, sent_rotation, vibration_step_counts, rotations,
                    rotation_step_counts, stop_commands, hw_vars>>

\* update_vibration(&mut self, msg, match_all), lines 89-152.
update_vibration(msg, match_all) ==
  IF Len(msg) = 0
    THEN \* lines 96-101: no subcommand, nothing is touched
      /\ last' = Call("update_vibration", msg, match_all, Err)
      /\ UNCHANGED <<attributes, sent_vibration, sent_rotation, vibrations,
                     vibration_step_counts, rotations, rotation_step_counts,
                     stop_commands, hw_vars>>
    ELSE
      LET r == VibrateLoop(msg, 1,
                 [vibrations |-> vibrations,
                  result |-> [i \in 1..Len(vibrations) |-> None],
                  changed_value |-> FALSE, err |-> FALSE],
                 [sent |-> sent_vibration, match_all |-> match_all,
                  step_counts |-> vibration_step_counts])
      IN \* the slots written before a failed index check stay written
         /\ vibrations' = r.vibrations
         /\ sent_vibration' = IF r.err THEN sent_vibration ELSE TRUE
         /\ last' = Call("update_vibration", msg, match_all,
                         IF r.err THEN Err ELSE VibrateReturn(r.changed_value, r.result))
         /\ UNCHANGED <<attributes, sent_rotation, vibration_step_counts, rotations,
                        rotation_step_counts, stop_commands, hw_vars>>

(***************************************************************************)
(* GenericCommandManager::update_rotation                                  *)
(***************************************************************************)
\* Comparing the speed alone, not the direction.
RotateSendSpeedOnly(sent, speed, clockwise, old) == ~sent \/ speed # old[1]

\* Resending only on a change, also for the first command.
RotateSendNoFirst(sent, speed, clockwise, old) == speed # old[1] \/ clockwise # old[2]

\* Lines 191-193: !self.sent_rotation || speed != self.rotations[index].0
\*                || clockwise != self.rotations[index].1
RotateSend(sent, speed, clockwise, old) ==
  ~sent \/ speed # old[1] \/ clockwise # old[2]

\* The loop of lines 174-198 from subcommand k on.
RECURSIVE RotateLoop(_, _, _, _)
RotateLoop(cmds, k, acc, ctx) ==
  IF k > Len(cmds) THEN acc
  ELSE LET index == cmds[k].index IN
    IF IndexOutOfRange(index, Len(acc.rotations))
      THEN BadIndex(acc)
      ELSE LET speed == Quantize(cmds[k].speed, ctx.step_counts[index + 1])
               clockwise == cmds[k].clockwise
           IN IF RotateSend(ctx.sent, speed, clockwise, acc.rotations[index + 1])
                THEN RotateLoop(cmds, k + 1,
                       [acc EXCEPT !.rotations[index + 1] = <<speed, clockwise>>,
                                   !.result[index + 1] = Some(<<speed, clockwise>>)],
                       ctx)
                ELSE RotateLoop(cmds, k + 1, acc, ctx)

\* update_rotation(&mut self, msg), lines 154-204.
update_rotation(msg) ==
  IF Len(msg) = 0
    THEN \* lines 160-165
      /\ last' = Call("update_rotation", msg, FALSE, Err)
      /\ UNCHANGED <<attributes, sent_vibration, sent_rotation, vibrations,
                     vibration_step_counts, rotations, rotation_step_counts,
                     stop_commands, hw_vars>>
    ELSE
      LET r == RotateLoop(msg, 1,
                 [rotations |-> rotations,
                  result |-> [i \in 1..Len(rotations) |-> None], err |-> FALSE],
                 [sent |-> sent_rotation, step_counts |-> rotation_step_counts])
      IN /\ rotations' = r.rotations
         /\ sent_rotation' = IF r.err THEN sent_rotation ELSE TRUE
         /\ last' = Call("update_rotation", msg, FALSE,
                         IF r.err THEN Err ELSE [kind |-> "some", val |-> r.result])
         /\ UNCHANGED <<attributes, sent_vibration, vibrations, vibration_step_counts,
                        rotation_step_counts, stop_commands, hw_vars>>

\* _update_linear(&mut self, _msg), lines 206-226: Ok(None), nothing is touched.
update_linear ==
  /\ last' = Call("update_linear", <<>>, FALSE, [kind |-> "none", val |-> <<>>])
  /\ UNCHANGED <<attributes, sent_vibration, sent_rotation, vibrations,
                 vibration_step_counts, rotations, rotation_step_counts, stop_commands, hw_vars>>

\* get_stop_commands(&self), lines 228-230: a clone of stop_commands.
get_stop_commands ==
  /\ last' = Call("get_stop_commands", <<>>, FALSE,
                  [kind |-> "some", val |-> stop_commands])
  /\ UNCHANGED <<attributes, sent_vibration, sent_rotation, vibrations,
                 vibration_step_counts, rotations, rotation_step_counts, stop_commands, hw_vars>>

(***************************************************************************)
(* WebsocketServerHardware.  A method runs its synchronous part when it is *)
(* called and returns a future; the async block of the future runs when    *)
(* the future is polled, one step of the model for each store, each lock   *)
(* of subscribe_token and each spawn, so that the futures of concurrent    *)
(* callers interleave as they do on a multi-threaded runtime.              *)
(***************************************************************************)
Step(name, res) == [step |-> name, res |-> res]

\* A broadcast::Receiver<Vec<u8>> of incoming_broadcaster: the values sent
\* and not yet received, and whether the channel has overwritten one of them.
NewReceiver == [queue |-> <<>>, lagged |-> FALSE]

\* A future a method returned.
Future(op, data) == [op |-> op, pc |-> "store", rx |-> NewReceiver, data |-> data]

\* token = CancellationToken::new() of the k-th subscribe, and token.child_token().
ParentToken(k) == [id |-> k, child |-> FALSE]
ChildToken(k) == [id |-> k, child |-> TRUE]

\* token.cancelled(): cancel() was called on the token or on its parent.
IsCancelled(t) == t \in cancelled \/ (t.child /\ ParentToken(t.id) \in cancelled)

Remove(seq, i) == SubSeq(seq, 1, i - 1) \o SubSeq(seq, i + 1, Len(seq))

\* What has happened on the link, which the code keeps nowhere:
\*   accepted         the payloads whose write_value future returned Ok, in
\*                    the order the futures completed;
\*   probed           a keepalive tick has sent its Ping;
\*   ponged           a Pong has come in since the last keepalive tick;
\*   keepalive_exit   the loop has returned at line 80;
\*   disconnected_at  Some(number of write_value calls made so far) when the
\*                    first disconnect future completed.
LinkHistory ==
  [accepted |-> <<>>, probed |-> FALSE, ponged |-> FALSE, keepalive_exit |-> FALSE,
   disconnected_at |-> None]

\* A session whose connection loop starts its liveness counter at 0.
HWInit_pong_count_zero ==
  /\ connected = TRUE
  /\ subscribed = FALSE
  /\ subscribe_token = None
  /\ cancelled = {}
  /\ tokens_made = 0
  /\ futures = <<>>
  /\ listeners = <<>>
  /\ loop_running = TRUE
  /\ pong_count = 0
  /\ outgoing = <<>>
  /\ frames_in = 0
  /\ writes_made = 0
  /\ wire = <<>>
  /\ events = <<>>
  /\ history = LinkHistory
  /\ hw_last = Step("new", "Ok")

\* WebsocketServerHardware::new, lines 250-265, with the connection loop
\* WebsocketServerHardwareConnector::new spawned (lines 183-198) at line 71.
HWInit ==
  /\ connected = TRUE
  /\ subscribed = FALSE
  /\ subscribe_token = None
  /\ cancelled = {}
  /\ tokens_made = 0
  /\ futures = <<>>
  /\ listeners = <<>>
  /\ loop_running = TRUE
  /\ pong_count = 1
  /\ outgoing = <<>>
  /\ frames_in = 0
  /\ writes_made = 0
  /\ wire = <<>>
  /\ events = <<>>
  /\ history = LinkHistory
  /\ hw_last = Step("new", "Ok")

\* connected(&self), lines 273-275.
connected_load ==
  /\ hw_last' = Step("connected", IF connected THEN "true" ELSE "false")
  /\ UNCHANGED <<gcm_vars, session_vars, loop_vars>>

\* disconnect(&self), lines 277-283: the future, not yet polled.
disconnect ==
  /\ Len(futures) < MaxPending
  /\ futures' = Append(futures, Future("disconnect", 0))
  /\ hw_last' = Step("disconnect", "pending")
  /\ UNCHANGED <<gcm_vars, connected, subscribed, subscribe_token, cancelled, tokens_made,
                 listeners, loop_vars>>

\* A disconnect that also ends the subscription.
disconnect_poll_teardown(i) ==
  /\ i \in DOMAIN futures
  /\ futures[i].op = "disconnect"
  /\ connected' = FALSE
  /\ subscribed' = FALSE
  /\ futures' = Remove(futures, i)
  /\ history' = IF IsSome(history.disconnected_at) THEN history
                ELSE [history EXCEPT !.disconnected_at = Some(writes_made)]
  /\ hw_last' = Step("disconnect_poll", "Ok")
  /\ UNCHANGED <<gcm_vars, subscribe_token, cancelled, tokens_made, listeners,
                 loop_running, pong_count, outgoing, frames_in, writes_made, wire, events>>

\* The async block of disconnect, lines 279-282.
disconnect_poll(i) ==
  /\ i \in DOMAIN futures
  /\ futures[i].op = "disconnect"
  /\ connected' = FALSE
  /\ futures' = Remove(futures, i)
  /\ history' = IF IsSome(history.disconnected_at) THEN history
                ELSE [history EXCEPT !.disconnected_at = Some(writes_made)]
  /\ hw_last' = Step("disconnect_poll", "Ok")
  /\ UNCHANGED <<gcm_vars, subscribed, subscribe_token, cancelled, tokens_made, listeners,
                 loop_running, pong_count, outgoing, frames_in, writes_made, wire, events>>

\* read_value(&self, _msg), lines 285-290.
read_value ==
  /\ hw_last' = Step("read_value", "UnhandledCommand")
  /\ UNCHANGED <<gcm_vars, session_vars, loop_vars>>

\* write_value(&self, msg), lines 292-295: the future, holding a clone of
\* outgoing_sender and the data.  The n-th write of a behaviour carries n.
write_value ==
  /\ Len(futures) < MaxPending
  /\ writes_made < MaxWrites
  /\ writes_made' = writes_made + 1
  /\ futures' = Append(futures, Future("write_value", writes_made + 1))
  /\ hw_last' = Step("write_value", "pending")
  /\ UNCHANGED <<connected, subscribed, subscribe_token, cancelled, tokens_made,
                 listeners, loop_running, pong_count, outgoing, frames_in, wire, events,
                 history, gcm_vars>>

\* A send that looks at the room in the queue only, not at the receiver.
write_value_poll_room_only(i) ==
  /\ i \in DOMAIN futures
  /\ futures[i].op = "write_value"
  /\ Len(outgoing) < OutgoingCapacity
  /\ outgoing' = Append(outgoing, futures[i].data)
  /\ history' = [history EXCEPT !.accepted = Append(@, futures[i].data)]
  /\ futures' = Remove(futures, i)
  /\ hw_last' = Step("write_value_poll", "Ok")
  /\ UNCHANGED <<connected, subscribed, subscribe_token, cancelled, tokens_made,
                 listeners, loop_running, pong_count, frames_in, writes_made, wire, events,
                 gcm_vars>>

\* The async block of write_value, lines 296-304: sender.send(data).await
\* fails once the receiver is dropped, waits while the channel is full.
write_value_poll(i) ==
  /\ i \in DOMAIN futures
  /\ futures[i].op = "write_value"
  /\ ~loop_running \/ Len(outgoing) < OutgoingCapacity
  /\ outgoing' = IF loop_running THEN Append(outgoing, futures[i].data) ELSE outgoing
  /\ history' = IF loop_running
                  THEN [history EXCEPT !.accepted = Append(@, futures[i].data)]
                  ELSE history
  /\ futures' = Remove(futures, i)
  /\ hw_last' = Step("write_value_poll",
                     IF loop_running THEN "Ok" ELSE "DeviceCommunicationError")
  /\ UNCHANGED <<connected, subscribed, subscribe_token, cancelled, tokens_made,
                 listeners, loop_running, pong_count, frames_in, writes_made, wire, events, gcm_vars>>

\* How many tokens the pending subscribe futures will still make.
TokensToCome ==
  Cardinality({i \in 1..Len(futures) : futures[i].op = "subscribe"})

\* subscribe without the check of the subscribed flag.
subscribe_unchecked ==
  /\ Len(futures) < MaxPending
  /\ tokens_made + TokensToCome < MaxTokens
  /\ futures' = Append(futures, Future("subscribe", 0))
  /\ hw_last' = Step("subscribe", "pending")
  /\ UNCHANGED <<gcm_vars, connected, subscribed, subscribe_token, cancelled, tokens_made,
                 listeners, loop_vars>>

\* subscribe(&self, _msg), lines 307-316: Ok at once when subscribed, else
\* the future, holding a new receiver of incoming_broadcaster.
subscribe ==
  IF subscribed
    THEN /\ hw_last' = Step("subscribe", "Ok")
         /\ UNCHANGED <<gcm_vars, session_vars, loop_vars>>
    ELSE /\ Len(futures) < MaxPending
         /\ tokens_made + TokensToCome < MaxTokens
         /\ futures' = Append(futures, Future("subscribe", 0))
         /\ hw_last' = Step("subscribe", "pending")
         /\ UNCHANGED <<gcm_vars, connected, subscribed, subscribe_token, cancelled, tokens_made,
                        listeners, loop_vars>>

\* The async block of subscribe, lines 317-347.
subscribe_poll(i) ==
  /\ i \in DOMAIN futures
  /\ futures[i].op = "subscribe"
  /\ CASE futures[i].pc = "store" ->
            \* line 318
            /\ subscribed' = TRUE
            /\ futures' = [futures EXCEPT ![i].pc = "token"]
            /\ hw_last' = Step("subscribe_poll", "pending")
            /\ UNCHANGED <<connected, subscribe_token, cancelled, tokens_made, listeners>>
       [] futures[i].pc = "token" ->
            \* lines 319-320: the slot gets a child of the new token;
            \* lines 321-346: the task spawned gets the receiver and the new
            \* token itself (nothing else reads the task before it runs)
            /\ tokens_made' = tokens_made + 1
            /\ subscribe_token' = Some(ChildToken(tokens_made + 1))
            /\ listeners' = Append(listeners,
                                   [token |-> ParentToken(tokens_made + 1),
                                    rx |-> futures[i].rx, running |-> TRUE])
            /\ futures' = Remove(futures, i)
            /\ hw_last' = Step("subscribe_poll", "Ok")
            /\ UNCHANGED <<connected, subscribed, cancelled>>
  /\ UNCHANGED <<gcm_vars, loop_vars>>

\* unsubscribe that makes its future whatever the subscribed flag says.
unsubscribe_unchecked ==
  /\ Len(futures) < MaxPending
  /\ futures' = Append(futures, Future("unsubscribe", 0))
  /\ hw_last' = Step("unsubscribe", "pending")
  /\ UNCHANGED <<gcm_vars, connected, subscribed, subscribe_token, cancelled, tokens_made,
                 listeners, loop_vars>>

\* unsubscribe(&self, _msg), lines 350-367: the future when subscribed, else
\* Err(DeviceCommunicationError) at once.
unsubscribe ==
  IF subscribed
    THEN /\ Len(futures) < MaxPending
         /\ futures' = Append(futures, Future("unsubscribe", 0))
         /\ hw_last' = Step("unsubscribe", "pending")
         /\ UNCHANGED <<gcm_vars, connected, subscribed, subscribe_token, cancelled, tokens_made,
                        listeners, loop_vars>>
    ELSE /\ hw_last' = Step("unsubscribe", "DeviceCommunicationError")
         /\ UNCHANGED <<gcm_vars, session_vars, loop_vars>>

\* The async block of unsubscribe, lines 354-361.
unsubscribe_poll(i) ==
  /\ i \in DOMAIN futures
  /\ futures[i].op = "unsubscribe"
  /\ CASE futures[i].pc = "store" ->
            \* line 355
            /\ subscribed' = FALSE
            /\ futures' = [futures EXCEPT ![i].pc = "take"]
            /\ hw_last' = Step("unsubscribe_poll", "pending")
            /\ UNCHANGED <<subscribe_token, cancelled>>
       [] futures[i].pc = "take" ->
            \* lines 356-360: take() the slot, expect() panics on None
            /\ subscribe_token' = None
            /\ cancelled' = IF IsSome(subscribe_token)
                              THEN cancelled \cup {subscribe_token[1]} ELSE cancelled
            /\ futures' = Remove(futures, i)
            /\ hw_last' = Step("unsubscribe_poll",
                               IF IsSome(subscribe_token) THEN "Ok" ELSE "panic")
            /\ UNCHANGED subscribed
  /\ UNCHANGED <<gcm_vars, connected, tokens_made, listeners, loop_vars>>

(***************************************************************************)
(* The listener task of subscribe, lines 321-345: select! over             *)
(* data_receiver.recv() and token.cancelled().                             *)
(***************************************************************************)
ListenerReady(l) ==
  (IF l.rx.lagged \/ Len(l.rx.queue) > 0 THEN {"recv"} ELSE {})
  \cup (IF IsCancelled(l.token) THEN {"cancelled"} ELSE {})

listener_poll(i) ==
  /\ i \in DOMAIN listeners
  /\ listeners[i].running
  /\ \E branch \in ListenerReady(listeners[i]) :
       IF branch = "recv" /\ ~listeners[i].rx.lagged
         THEN \* Ok(data), lines 326-335
           /\ events' = Append(events, <<"Notification", Head(listeners[i].rx.queue)>>)
           /\ listeners' = [listeners EXCEPT ![i].rx.queue = Tail(@)]
           /\ hw_last' = Step("listener_poll", "Notification")
         ELSE \* Err(_) => break (line 336: the receiver lagged), or the
              \* token was cancelled (lines 339-341); the receiver is dropped
           /\ listeners' = [listeners EXCEPT ![i].running = FALSE, ![i].rx = NewReceiver]
           /\ events' = events
           /\ hw_last' = Step("listener_poll", branch)
  /\ UNCHANGED <<connected, subscribed, subscribe_token, cancelled, tokens_made, futures,
                 loop_running, pong_count, outgoing, frames_in, writes_made, wire, history,
                 gcm_vars>>

(***************************************************************************)
(* run_connection_loop, lines 57-157: select! over the keepalive timer,    *)
(* request_receiver.recv() and websocket_server_receiver.next().           *)
(***************************************************************************)
\* broadcast::Sender::send: every receiver gets the value; one that holds
\* ChannelCapacity values loses its oldest and is lagged.
Push(rx, v) ==
  IF Len(rx.queue) < ChannelCapacity
    THEN [rx EXCEPT !.queue = Append(@, v)]
    ELSE [queue |-> Append(Tail(rx.queue), v), lagged |-> TRUE]

\* The branch `_ = sleep`, lines 77-91.  sent: whether the ping went out.
loop_sleep(sent) ==
  /\ loop_running
  /\ IF pong_count = 0
       THEN \* lines 78-81
         /\ loop_running' = FALSE
         /\ outgoing' = <<>>
         /\ pong_count' = pong_count
         /\ history' = [history EXCEPT !.keepalive_exit = TRUE]
         /\ hw_last' = Step("loop_sleep", "no pongs")
       ELSE \* lines 82-90
         /\ pong_count' = 0
         /\ loop_running' = sent
         /\ outgoing' = IF sent THEN outgoing ELSE <<>>
         /\ history' = [history EXCEPT !.probed = @ \/ sent, !.ponged = FALSE]
         /\ hw_last' = Step("loop_sleep", IF sent THEN "ping" ELSE "ping failed")
  /\ UNCHANGED <<session_vars, frames_in, writes_made, wire, events, gcm_vars>>

\* A loop that takes the newest request of the queue first.
loop_request_newest_first(sent) ==
  /\ loop_running
  /\ Len(outgoing) > 0
  /\ IF sent
       THEN /\ wire' = Append(wire, outgoing[Len(outgoing)])
            /\ outgoing' = SubSeq(outgoing, 1, Len(outgoing) - 1)
            /\ loop_running' = TRUE
            /\ hw_last' = Step("loop_request", "sent")
       ELSE /\ wire' = wire
            /\ outgoing' = <<>>
            /\ loop_running' = FALSE
            /\ hw_last' = Step("loop_request", "send failed")
  /\ UNCHANGED <<session_vars, pong_count, frames_in, writes_made, events, history,
                 gcm_vars>>

\* The branch `ws_msg = request_receiver.recv()` with Some(binary_msg), lines
\* 92-100.  (The senders of the channel live as long as the session, so
\* recv() gives no None.)
loop_request(sent) ==
  /\ loop_running
  /\ Len(outgoing) > 0
  /\ IF sent
       THEN /\ wire' = Append(wire, Head(outgoing))
            /\ outgoing' = Tail(outgoing)
            /\ loop_running' = TRUE
            /\ hw_last' = Step("loop_request", "sent")
       ELSE /\ wire' = wire
            /\ outgoing' = <<>>
            /\ loop_running' = FALSE
            /\ hw_last' = Step("loop_request", "send failed")
  /\ UNCHANGED <<session_vars, pong_count, frames_in, writes_made, events, history,
                 gcm_vars>>

WsMessages == {"Text", "Binary", "Close", "Ping", "Frame", "Pong", "Err", "None"}

\* The branch `websocket_server_msg = websocket_server_receiver.next()`, lines
\* 109-153.  The n-th binary frame of a behaviour carries n.
loop_ws(msg) ==
  /\ loop_running
  /\ msg = "Binary" => frames_in < MaxFrames
  /\ msg = "Pong" => pong_count < MaxPongs
  /\ frames_in' = IF msg = "Binary" THEN frames_in + 1 ELSE frames_in
  /\ listeners' = IF msg = "Binary"
                    THEN [i \in 1..Len(listeners) |->
                            IF listeners[i].running
                              THEN [listeners[i] EXCEPT !.rx = Push(@, frames_in + 1)]
                              ELSE listeners[i]]
                    ELSE listeners
  /\ futures' = IF msg = "Binary"
                  THEN [i \in 1..Len(futures) |->
                          IF futures[i].op = "subscribe"
                            THEN [futures[i] EXCEPT !.rx = Push(@, frames_in + 1)]
                            ELSE futures[i]]
                  ELSE futures
  /\ events' = IF msg = "Close" THEN Append(events, <<"Disconnected", 0>>) ELSE events
  /\ pong_count' = IF msg = "Pong" THEN pong_count + 1 ELSE pong_count
  /\ history' = IF msg = "Pong" THEN [history EXCEPT !.ponged = TRUE] ELSE history
  /\ loop_running' = (msg \notin {"Close", "Err", "None"})
  /\ outgoing' = IF msg \in {"Close", "Err", "None"} THEN <<>> ELSE outgoing
  /\ hw_last' = Step("loop_ws", msg)
  /\ UNCHANGED <<connected, subscribed, subscribe_token, cancelled, tokens_made,
                 writes_made, wire, gcm_vars>>

(***************************************************************************)
(* The requests of the model: up to MaxCmds subcommands, each naming an    *)
(* index of the device or the first index past its features.               *)
(***************************************************************************)
SeqsUpTo(S, n) == UNION {[1..m -> S] : m \in 0..n}

VibrateSubcommands(n) == [index : 0..n, speed : Speeds]
RotationSubcommands(n) == [index : 0..n, speed : RotateSpeeds, clockwise : BOOLEAN]

\* The manager new(attrs) returns.
GCMInit(attrs) ==
  /\ attributes = attrs
  /\ LET m == GenericCommandManager_new(attrs) IN
       /\ sent_vibration = m.sent_vibration
       /\ sent_rotation = m.sent_rotation
       /\ vibrations = m.vibrations
       /\ rotations = m.rotations
       /\ vibration_step_counts = m.vibration_step_counts
       /\ rotation_step_counts = m.rotation_step_counts
       /\ stop_commands = m.stop_commands
  /\ last = NoCall("new")

InitGCM ==
  /\ \E attrs \in Descriptors : GCMInit(attrs)
  /\ HWInit

\* The caller of the model.  With no call on record it makes any call; after
\* an update_vibration or update_rotation it either makes the same call again
\* at once, with the same arguments, or drops the record (forget); the calls
\* without arguments it makes at any time.  `last` is read by no operation of
\* the manager, so every sequence of calls is a behaviour, with forget steps
\* between the calls.
Unrecorded == last.op \in {"new", "idle"}

VibrateRequests ==
  IF Unrecorded THEN SeqsUpTo(VibrateSubcommands(Len(vibrations)), MaxCmds)
  ELSE IF last.op = "update_vibration" THEN {last.msg} ELSE {}

RotateRequests ==
  IF Unrecorded THEN SeqsUpTo(RotationSubcommands(Len(rotations)), MaxCmds)
  ELSE IF last.op = "update_rotation" THEN {last.msg} ELSE {}

MatchAllChoices == IF Unrecorded THEN BOOLEAN ELSE {last.match_all}

forget ==
  /\ ~Unrecorded
  /\ last' = NoCall("idle")
  /\ UNCHANGED <<attributes, sent_vibration, sent_rotation, vibrations,
                 vibration_step_counts, rotations, rotation_step_counts, stop_commands,
                 hw_vars>>

\* The caller's update_vibration and update_rotation.
call_update_vibration ==
  \E msg \in VibrateRequests, match_all \in MatchAllChoices :
    update_vibration(msg, match_all)

call_update_rotation == \E msg \in RotateRequests : update_rotation(msg)

NextGCM ==
  \/ call_update_vibration
  \/ call_update_rotation
  \/ update_linear
  \/ get_stop_commands
  \/ forget

\* The command manager under any sequence of calls; the session stays idle.
SpecGCM == InitGCM /\ [][NextGCM]_vars

\* The descriptor of the repository's vibration test (lines 243-248).
TestDescriptor ==
  [k \in Kinds |->
     IF k = "VibrateCmd"
       THEN Some([feature_count |-> Some(2), step_count |-> Some(<<20, 20>>)])
       ELSE None]

InitHW ==
  /\ GCMInit(TestDescriptor)
  /\ HWInit

\* The calls that subscribe and unsubscribe, their futures, the listener
\* tasks and the connection loop with the frames that come in.
NextSubscription ==
  \/ subscribe
  \/ unsubscribe
  \/ \E i \in 1..MaxPending : subscribe_poll(i)
  \/ \E i \in 1..MaxPending : unsubscribe_poll(i)
  \/ \E i \in 1..MaxTokens : listener_poll(i)
  \/ \E sent \in BOOLEAN : loop_sleep(sent)
  \/ \E msg \in WsMessages : loop_ws(msg)

\* The calls that read the flag, disconnect, read and write, their futures
\* and the connection loop with the requests that go out.
\* The frames of this half: a binary frame goes to incoming_broadcaster,
\* which has no receiver when nothing subscribes.
LinkMessages == WsMessages \ {"Binary"}

NextLink ==
  \/ connected_load
  \/ disconnect
  \/ read_value
  \/ write_value
  \/ \E i \in 1..MaxPending : disconnect_poll(i)
  \/ \E i \in 1..MaxPending : write_value_poll(i)
  \/ \E sent \in BOOLEAN : loop_sleep(sent)
  \/ \E sent \in BOOLEAN : loop_request(sent)
  \/ \E msg \in LinkMessages : loop_ws(msg)

\* The session under any interleaving of its callers, its futures, its
\* listener tasks and the connection loop; the command manager stays as
\* built.  The two halves of the session share the connection loop and
\* nothing else: subscribe, unsubscribe and the listeners never touch
\* connected or outgoing_sender, and disconnect and write_value never touch
\* subscribed, subscribe_token or incoming_broadcaster.
SpecSubscription == InitHW /\ [][NextSubscription]_vars

SpecLink == InitHW /\ [][NextLink]_vars

\* subscribe() and unsubscribe() called by one caller that awaits the future
\* of each call before it makes the next.
subscribe_awaited == futures = <<>> /\ subscribe
unsubscribe_awaited == futures = <<>> /\ unsubscribe

NextSequential ==
  \/ subscribe_awaited
  \/ unsubscribe_awaited
  \/ \E i \in 1..MaxPending : subscribe_poll(i)
  \/ \E i \in 1..MaxPending : unsubscribe_poll(i)
  \/ \E i \in 1..MaxTokens : listener_poll(i)
  \/ \E sent \in BOOLEAN : loop_sleep(sent)
  \/ \E msg \in WsMessages : loop_ws(msg)

SpecSequential == InitHW /\ [][NextSequential]_vars

\* The one caller with a runtime that runs every listener task that can
\* take a step (tasks spawned on the runtime are polled when they are woken).
SpecListenerFair ==
  InitHW /\ [][NextSequential]_vars /\ \A i \in 1..MaxTokens : WF_vars(listener_poll(i))

\* The other methods called by that one caller.
connected_awaited == futures = <<>> /\ connected_load
disconnect_awaited == futures = <<>> /\ disconnect
read_value_awaited == futures = <<>> /\ read_value
write_value_awaited == futures = <<>> /\ write_value

\* The whole session with one caller: every method, the futures, the
\* listener tasks and the connection loop.
NextSession ==
  \/ connected_awaited
  \/ disconnect_awaited
  \/ read_value_awaited
  \/ write_value_awaited
  \/ subscribe_awaited
  \/ unsubscribe_awaited
  \/ \E i \in 1..MaxPending : disconnect_poll(i)
  \/ \E i \in 1..MaxPending : write_value_poll(i)
  \/ \E i \in 1..MaxPending : subscribe_poll(i)
  \/ \E i \in 1..MaxPending : unsubscribe_poll(i)
  \/ \E i \in 1..MaxTokens : listener_poll(i)
  \/ \E sent \in BOOLEAN : loop_sleep(sent)
  \/ \E sent \in BOOLEAN : loop_request(sent)
  \/ \E msg \in WsMessages : loop_ws(msg)

SpecSession == InitHW /\ [][NextSession]_vars

(***************************************************************************)
(* Vocabulary of the properties of the command manager.                    *)
(***************************************************************************)
IsVibrate == last.op = "update_vibration"
IsRotate == last.op = "update_rotation"

\* The indices the request of the last call names.
Named == {last.msg[k].index : k \in 1..Len(last.msg)}

\* The last subcommand of the request that names index i.
LastNaming(i) ==
  last.msg[CHOOSE k \in 1..Len(last.msg) :
             /\ last.msg[k].index = i
             /\ \A j \in (k + 1)..Len(last.msg) : last.msg[j].index # i]

\* The request passes validation: it is not empty and names only indices
\* below n, the feature count of its kind.
ValidRequest(n) ==
  /\ Len(last.msg) > 0
  /\ \A k \in 1..Len(last.msg) : last.msg[k].index < n

\* floor(speed * steps), stated without the model's Quantize.
Floor(speed, steps) ==
  CHOOSE q \in 0..steps :
    q * speed[2] <= speed[1] * steps /\ speed[1] * steps < (q + 1) * speed[2]

\* The quantized value of the subcommand e of a Vibrate / Rotate request.
VibrateValue(e) == Floor(e.speed, vibration_step_counts[e.index + 1])
RotateValue(e) == <<Floor(e.speed, rotation_step_counts[e.index + 1]), e.clockwise>>

\* The indices with a subcommand whose quantized value differs from the
\* last_value the call started from.
VibrateDiffering ==
  {i \in Named : \E k \in 1..Len(last.msg) :
     last.msg[k].index = i /\ VibrateValue(last.msg[k]) # last.pre.vibrations[i + 1]}
RotateDiffering ==
  {i \in Named : \E k \in 1..Len(last.msg) :
     last.msg[k].index = i /\ RotateValue(last.msg[k]) # last.pre.rotations[i + 1]}

\* The subcommands that name one index agree in their quantized value (so
\* when every index is named at most once).
VibrateAgree ==
  \A j, k \in 1..Len(last.msg) :
    last.msg[j].index = last.msg[k].index => VibrateValue(last.msg[j]) = VibrateValue(last.msg[k])
RotateAgree ==
  \A j, k \in 1..Len(last.msg) :
    last.msg[j].index = last.msg[k].index => RotateValue(last.msg[j]) = RotateValue(last.msg[k])

\* The first call on a manager as constructed returned Some(mapping) with the
\* quantized value at every index it names.
FirstVibrateSendsAll ==
  (IsVibrate /\ FreshState(last.pre) /\ ValidRequest(Len(vibrations))) =>
     /\ last.res.kind = "some"
     /\ \A i \in Named : last.res.val[i + 1] = Some(VibrateValue(LastNaming(i)))

\* The call repeats, without match_all, the first call on a manager as constructed.
SecondVibrate == IsVibrate /\ last.prev_fresh /\ ~last.match_all

\* C1 as stated: for every valid Vibrate request, update_vibration on a fresh
\* manager returns Some(mapping) with the quantized value at every requested
\* index, and the same call made again at once (match_all false) returns None.
C1_FirstSendsSecondNone ==
  /\ FirstVibrateSendsAll
  /\ SecondVibrate => last.res.kind = "none"

\* What update_vibration does on the repeat: the first call returns
\* Some(mapping) with the quantized value at every requested index; the same
\* call made again at once returns None exactly when the subcommands naming
\* one index agree in their quantized value (so whenever each index is named
\* once), and Some(mapping) otherwise.
C1_FirstSendsSecondNoneIfAgree ==
  /\ FirstVibrateSendsAll
  /\ SecondVibrate => (last.res.kind = "none" <=> VibrateAgree)
  /\ SecondVibrate => last.res.kind # "err"

\* A request that names vibrator 0 twice, with speeds 0.0 and 0.5, made twice
\* on a one-vibrator manager: the second call returned Some([Some(10)]).
C1_Witness ==
  /\ SecondVibrate
  /\ last.msg = <<[index |-> 0, speed |-> <<0, 1>>], [index |-> 0, speed |-> <<1, 2>>]>>
  /\ last.res = [kind |-> "some", val |-> <<Some(10)>>]

\* A Vibrate call that passed validation after an earlier accepted Vibrate call.
LaterVibrate(match_all) ==
  /\ IsVibrate
  /\ last.pre.sent_vibration
  /\ last.match_all = match_all
  /\ ValidRequest(Len(vibrations))

\* The mapping of a Vibrate call: Some(quantized) at the indices of S, None elsewhere.
VibrateMapping(S) ==
  [i \in 1..Len(vibrations) |->
     IF (i - 1) \in S THEN Some(VibrateValue(LastNaming(i - 1))) ELSE None]

\* last_value after the call: the quantized value at the indices of S, what it
\* was elsewhere.
VibrateStored(S) ==
  vibrations = [i \in 1..Len(vibrations) |->
                  IF (i - 1) \in S THEN VibrateValue(LastNaming(i - 1))
                  ELSE last.pre.vibrations[i]]

\* C2 as stated: after an accepted Vibrate command, update_vibration without
\* match_all returns a mapping with one slot per vibrator, Some(quantized)
\* exactly at the named indices whose quantized value differs from
\* last_value, and last_value changes only at those slots.
C2_AlwaysMapping ==
  LaterVibrate(FALSE) =>
    /\ last.res = [kind |-> "some", val |-> VibrateMapping(VibrateDiffering)]
    /\ VibrateStored(VibrateDiffering)

\* C2 as amended: such a call returns None when no named index has a quantized
\* value that differs from last_value; otherwise the mapping with
\* Some(quantized) exactly at the named indices that differ.  last_value
\* changes only at those slots.
C2_MappingOrNone ==
  LaterVibrate(FALSE) =>
    /\ IF VibrateDiffering = {}
         THEN last.res.kind = "none"
         ELSE last.res = [kind |-> "some", val |-> VibrateMapping(VibrateDiffering)]
    /\ VibrateStored(VibrateDiffering)

\* The tests' third call: both vibrators named, only the second changed.
C2_Witness ==
  /\ LaterVibrate(FALSE)
  /\ Named = {0, 1}
  /\ last.pre.vibrations = <<10, 1>>
  /\ last.res = [kind |-> "some", val |-> <<None, Some(2)>>]
  /\ vibrations = <<10, 2>>

\* A Rotate call that passed validation after an earlier accepted Rotate call.
LaterRotate ==
  /\ IsRotate
  /\ last.pre.sent_rotation
  /\ ValidRequest(Len(rotations))

RotateMapping(S) ==
  [i \in 1..Len(rotations) |->
     IF (i - 1) \in S THEN Some(RotateValue(LastNaming(i - 1))) ELSE None]

AllNone(n) == [i \in 1..n |-> None]

\* The per-slot part of C3: a vector is returned, with Some((quantized,
\* direction)) exactly at the named indices whose speed or direction differs
\* from last_value.
RotatePerSlot ==
  LaterRotate => last.res = [kind |-> "some", val |-> RotateMapping(RotateDiffering)]

\* C3 as stated: after an accepted Rotate command, update_rotation returns a
\* vector with Some((quantized, direction)) exactly at the named indices whose
\* quantized speed or direction differs from last_value, and the same call
\* made again returns the all-None vector.
C3_RepeatAllNone ==
  /\ RotatePerSlot
  /\ (IsRotate /\ last.repeat) => last.res.val = AllNone(Len(rotations))

\* What update_rotation does on the repeat: the same call made again returns
\* the all-None vector exactly when the subcommands naming one index agree in
\* quantized speed and direction (so whenever each index is named once).  A
\* vector is returned in either case.
C3_RepeatAllNoneIfAgree ==
  /\ RotatePerSlot
  /\ (IsRotate /\ last.repeat) =>
        /\ last.res.kind = "some"
        /\ last.res.val = AllNone(Len(rotations)) <=> RotateAgree

\* A request that names rotator 0 twice, with speed 0.0 counter-clockwise and
\* clockwise, made after itself on a one-rotator manager: the second call
\* returned [Some((0, true))].
C3_Witness ==
  /\ IsRotate
  /\ last.repeat
  /\ last.msg = <<[index |-> 0, speed |-> <<0, 1>>, clockwise |-> FALSE],
                  [index |-> 0, speed |-> <<0, 1>>, clockwise |-> TRUE]>>
  /\ last.res = [kind |-> "some", val |-> <<Some(<<0, TRUE>>)>>]

\* C4: update_vibration and update_rotation return an error whenever the
\* request is empty or any of its subcommands, at whatever position, names an
\* index >= the feature count of the kind.
C4_InvalidAlwaysFails ==
  /\ (IsVibrate /\ ~ValidRequest(Len(vibrations))) => last.res.kind = "err"
  /\ (IsRotate /\ ~ValidRequest(Len(rotations))) => last.res.kind = "err"

\* A Rotate request whose first subcommand is valid and whose second is not.
C4_Witness ==
  /\ IsRotate
  /\ Len(rotations) = 2
  /\ Len(last.msg) = 2
  /\ last.msg[1].index = 1
  /\ last.msg[2].index = 2
  /\ last.res.kind = "err"

\* C5: update_vibration with match_all, after an accepted Vibrate command,
\* returns None when no named index has a quantized value that differs from
\* last_value; otherwise a mapping with Some(quantized) at every named index,
\* changed or not, and None at every other index.
C5_MatchAllSendsAllOrNone ==
  LaterVibrate(TRUE) =>
    IF VibrateDiffering = {}
      THEN last.res.kind = "none"
      ELSE last.res = [kind |-> "some", val |-> VibrateMapping(Named)]

\* Both vibrators named under match_all, only the second changed: both are sent.
C5_Witness ==
  /\ LaterVibrate(TRUE)
  /\ last.pre.vibrations = <<10, 1>>
  /\ last.res = [kind |-> "some", val |-> <<Some(10), Some(2)>>]

\* C6: the first valid call of a kind returns Some at every named index, also
\* where the value equals the initial last_value; sent_vibration /
\* sent_rotation is true after it, keeps its value over a call that failed
\* validation, and is never reset once true.
C6_FirstCallSendsAndSetsSent ==
  /\ (IsVibrate /\ ~last.pre.sent_vibration /\ ValidRequest(Len(vibrations))) =>
        /\ last.res = [kind |-> "some", val |-> VibrateMapping(Named)]
        /\ sent_vibration
  /\ (IsRotate /\ ~last.pre.sent_rotation /\ ValidRequest(Len(rotations))) =>
        /\ last.res = [kind |-> "some", val |-> RotateMapping(Named)]
        /\ sent_rotation
  /\ (IsVibrate /\ last.res.kind = "err") => sent_vibration = last.pre.sent_vibration
  /\ (IsRotate /\ last.res.kind = "err") => sent_rotation = last.pre.sent_rotation
  /\ ~Unrecorded =>
        /\ last.pre.sent_vibration => sent_vibration
        /\ last.pre.sent_rotation => sent_rotation
        /\ (sent_vibration /\ ~last.pre.sent_vibration) => (IsVibrate /\ last.res.kind # "err")
        /\ (sent_rotation /\ ~last.pre.sent_rotation) => (IsRotate /\ last.res.kind # "err")

\* The first Rotate call of a session asks for (0, clockwise), the initial
\* last_value, and is sent.
C6_Witness ==
  /\ IsRotate
  /\ FreshState(last.pre)
  /\ last.res = [kind |-> "some", val |-> <<Some(<<0, TRUE>>)>>]
  /\ sent_rotation

\* The zero-valued stop command of a kind with n features.
ZeroCommand(kind, n) ==
  [cmd |-> kind,
   subcommands |-> [i \in 1..n |->
      IF kind = "RotateCmd"
        THEN [index |-> i - 1, speed |-> <<0, 1>>, clockwise |-> FALSE]
        ELSE [index |-> i - 1, speed |-> <<0, 1>>]]]

\* The feature count of a kind in the descriptor.
FeatureCount(kind) ==
  IF attributes[kind] = None \/ attributes[kind][1].feature_count = None
    THEN 0 ELSE attributes[kind][1].feature_count[1]

\* The stop commands of the kinds of ks, in the order Vibrate, Rotate, Linear.
ZeroCommands(ks) ==
  LET one(kind) == IF kind \in ks /\ attributes[kind] # None
                     THEN <<ZeroCommand(kind, FeatureCount(kind))>> ELSE <<>>
  IN one("VibrateCmd") \o one("RotateCmd") \o one("LinearCmd")

\* C7 as stated: get_stop_commands returns one stop command for each of
\* Vibrate, Rotate and Linear present in the descriptor and none for an
\* absent kind, each with one zero-valued entry per feature, whatever update
\* calls came before.
C7_StopPerKind ==
  /\ stop_commands = ZeroCommands(Kinds)
  /\ last.op = "get_stop_commands" => last.res.val = ZeroCommands(Kinds)

\* C7 as amended: one stop command for each of Vibrate and Rotate present in
\* the descriptor, none for an absent kind and none for Linear, each with one
\* zero-valued entry per feature, whatever update calls came before.
C7_StopPerVibrateRotate ==
  /\ stop_commands = ZeroCommands({"VibrateCmd", "RotateCmd"})
  /\ last.op = "get_stop_commands" =>
        last.res = [kind |-> "some", val |-> ZeroCommands({"VibrateCmd", "RotateCmd"})]

\* get_stop_commands after an accepted Vibrate command, on a device with a
\* vibrator and a linear actuator: the Vibrate stop command alone.
C7_Witness ==
  /\ last.op = "get_stop_commands"
  /\ sent_vibration
  /\ vibrations # <<0>>
  /\ attributes["LinearCmd"] # None
  /\ last.res.val = <<ZeroCommand("VibrateCmd", 1)>>

\* a <= b as fractions.
SpeedLeq(a, b) == a[1] * b[2] <= b[1] * a[2]

\* C8: the value an accepted call emits and stores for a named index is
\* floor(speed * step_count[index]) of the subcommand it took it from, never
\* rounded up, and lies in 0..step_count[index]; for one step count a larger
\* speed never quantizes to a smaller value.
C8_QuantizeIsFloor ==
  /\ (IsVibrate /\ last.res.kind # "err") =>
        \A i \in Named :
          /\ vibrations[i + 1] = VibrateValue(LastNaming(i))
          /\ vibrations[i + 1] \in 0..vibration_step_counts[i + 1]
          /\ last.res.kind = "some" =>
               last.res.val[i + 1] \in {None, Some(vibrations[i + 1])}
  /\ (IsRotate /\ last.res.kind # "err") =>
        \A i \in Named :
          /\ rotations[i + 1] = RotateValue(LastNaming(i))
          /\ rotations[i + 1][1] \in 0..rotation_step_counts[i + 1]
          /\ last.res.val[i + 1] \in {None, Some(rotations[i + 1])}
  /\ \A i \in 1..Len(vibration_step_counts) : \A a, b \in Speeds :
        SpeedLeq(a, b) =>
          Quantize(a, vibration_step_counts[i]) <= Quantize(b, vibration_step_counts[i])
  /\ \A i \in 1..Len(rotation_step_counts) : \A a, b \in RotateSpeeds :
        SpeedLeq(a, b) =>
          Quantize(a, rotation_step_counts[i]) <= Quantize(b, rotation_step_counts[i])

\* Speed 1/2 on a vibrator of 3 steps: 1.5 is emitted and stored as 1.
C8_Witness ==
  /\ IsVibrate
  /\ Len(last.msg) = 2
  /\ last.msg[2] = [index |-> 1, speed |-> <<1, 2>>]
  /\ last.res.kind = "some"
  /\ last.res.val[2] = Some(1)
  /\ vibrations[2] = 1


(***************************************************************************)
(* The subscription of a session.                                          *)
(***************************************************************************)
NotSubscribedError == Step("unsubscribe", "DeviceCommunicationError")

\* C9: unsubscribe() called while the subscribed flag is false returns
\* Err(DeviceCommunicationError) and leaves the subscribed flag, the slot of
\* the cancellation handle, the handles cancelled and every listener task as
\* they were (and makes no future that could change them later).
C9_UnsubscribeNotSubscribed ==
  [][(hw_last'.step = "unsubscribe" /\ ~subscribed) =>
       /\ hw_last' = NotSubscribedError
       /\ UNCHANGED <<subscribed, subscribe_token, cancelled, listeners, futures>>]_vars

\* unsubscribe() has failed after a completed subscribe and a completed
\* unsubscribe, with the listener of the subscribe still there.
C9_Witness ==
  /\ hw_last = NotSubscribedError
  /\ ~subscribed
  /\ subscribe_token = None
  /\ cancelled = {ChildToken(1)}
  /\ Len(listeners) = 1
  /\ futures = <<>>

WriteFailed == Step("write_value_poll", "DeviceCommunicationError")

\* C11: a keepalive tick that follows a tick with its Ping sent and no Pong
\* since makes the connection loop return; once the loop has returned, a
\* write_value future that completes returns Err(DeviceCommunicationError),
\* puts nothing on the wire and is not counted as written, and every pending
\* write_value future (one that waited for room in the queue too) can complete.
C11_KeepaliveExitFailsWrites ==
  /\ [][(hw_last'.step = "loop_sleep" /\ history.probed /\ ~history.ponged)
          => ~loop_running']_vars
  /\ [][(hw_last'.step = "write_value_poll" /\ ~loop_running)
          => (hw_last' = WriteFailed /\ wire' = wire
              /\ history'.accepted = history.accepted)]_vars
  /\ [](~loop_running =>
          \A i \in DOMAIN futures :
            futures[i].op = "write_value" => ENABLED write_value_poll(i))

\* The third write has failed after the keepalive exit, the first two having
\* filled the queue without reaching the wire.
C11_Witness ==
  /\ hw_last = WriteFailed
  /\ history.keepalive_exit
  /\ history.accepted = <<1, 2>>
  /\ writes_made = 3
  /\ wire = <<>>

\* C12: after the connection loop has returned for want of a Pong, every
\* connected() call returns false.
C12_ConnectedFalseAfterKeepaliveExit ==
  (hw_last.step = "connected" /\ history.keepalive_exit) => hw_last.res = "false"

\* connected() has returned true after the keepalive exit, with no
\* disconnect() ever called.
C12_Witness ==
  /\ hw_last = Step("connected", "true")
  /\ history.keepalive_exit
  /\ ~loop_running
  /\ history.disconnected_at = None

IsPrefix(a, b) == Len(a) <= Len(b) /\ \A k \in 1..Len(a) : a[k] = b[k]

\* C13: the binary frames the connection loop has put on the wire are a
\* prefix of the payloads whose write_value returned Ok, in the order those
\* calls completed, whatever keepalive ticks and inbound frames come between.
C13_WirePrefixOfAccepted == IsPrefix(wire, history.accepted)

\* Three writes have reached the wire in order, with a keepalive tick and a
\* Pong on the way.
C13_Witness ==
  /\ wire = <<1, 2, 3>>
  /\ history.accepted = <<1, 2, 3>>
  /\ history.probed
  /\ history.ponged

\* C14: once a disconnect() has completed, no write_value called after it
\* returns Ok and no payload submitted after it is on the wire.
C14_NoWriteAfterDisconnect ==
  IsSome(history.disconnected_at) =>
    /\ \A k \in 1..Len(history.accepted) :
         history.accepted[k] <= history.disconnected_at[1]
    /\ \A k \in 1..Len(wire) : wire[k] <= history.disconnected_at[1]

\* disconnect() completed before any write was made, and the first write
\* has returned Ok and is on the wire.
C14_Witness ==
  /\ history.disconnected_at = Some(0)
  /\ ~connected
  /\ history.accepted = <<1>>
  /\ wire = <<1>>

Disconnected == <<"Disconnected", 0>>

\* C15: when the connection loop has returned, for whatever reason, a
\* Disconnected event has been published.
C15_ExitPublishesDisconnected ==
  ~loop_running => \E k \in DOMAIN events : events[k] = Disconnected

\* The loop has returned on a read error of the socket and no event was
\* published.
C15_Witness ==
  /\ hw_last = Step("loop_ws", "Err")
  /\ ~loop_running
  /\ events = <<>>

\* C16: disconnect() returns a future that can always complete and returns
\* Ok; the call changes nothing of the session, its completion stores false
\* in connected and changes nothing else (so nothing at all when connected
\* is false already); connected never becomes true again, and connected()
\* returns the flag.
C16_DisconnectOnlyClearsConnected ==
  /\ [][hw_last'.step = "disconnect" =>
          (hw_last'.res = "pending"
           /\ UNCHANGED <<connected, subscribed, subscribe_token, cancelled, listeners,
                          loop_running, pong_count, outgoing, wire, events>>)]_vars
  /\ [][hw_last'.step = "disconnect_poll" =>
          (hw_last'.res = "Ok" /\ ~connected'
           /\ UNCHANGED <<subscribed, subscribe_token, cancelled, listeners,
                          loop_running, pong_count, outgoing, wire, events>>)]_vars
  /\ [][~connected => ~connected']_vars
  /\ [](hw_last.step = "connected" =>
          hw_last.res = (IF connected THEN "true" ELSE "false"))
  /\ [](\A i \in DOMAIN futures :
          futures[i].op = "disconnect" => ENABLED disconnect_poll(i))

\* disconnect() has completed on a session that is subscribed, with its
\* listener running, a write in the queue and the connection loop running.
C16_Witness ==
  /\ hw_last = Step("disconnect_poll", "Ok")
  /\ ~connected
  /\ subscribed
  /\ Len(listeners) = 1
  /\ listeners[1].running
  /\ Len(outgoing) = 1
  /\ loop_running



(***************************************************************************)
(* The subscription under concurrent callers, and the listener task.       *)
(***************************************************************************)
\* C17: in every state the slot holds a cancellation handle exactly when
\* the subscribed flag is true.
C17_HandleIffSubscribed == IsSome(subscribe_token) <=> subscribed

\* The session is at rest, not subscribed, with a handle in the slot: an
\* unsubscribe ran between the two steps of a subscribe.
C17_Witness ==
  /\ futures = <<>>
  /\ ~subscribed
  /\ IsSome(subscribe_token)
  /\ hw_last = Step("subscribe_poll", "Ok")

\* C18: the future of an unsubscribe never finds the slot empty: it takes
\* and cancels a handle and returns Ok.
C18_UnsubscribeNeverPanics ==
  hw_last.step = "unsubscribe_poll" => hw_last.res \in {"pending", "Ok"}

\* The second of two unsubscribe futures made while subscribed has found
\* the slot empty, the first having taken the handle.
C18_Witness ==
  /\ hw_last = Step("unsubscribe_poll", "panic")
  /\ cancelled = {ChildToken(1)}
  /\ tokens_made = 1
  /\ futures = <<>>

\* C19: once unsubscribe has cancelled the handle the k-th subscribe stored,
\* the listener task of that subscribe eventually exits.
C19_CancelledListenerExits ==
  \A k \in 1..MaxTokens :
    (ChildToken(k) \in cancelled) ~> (k \in DOMAIN listeners /\ ~listeners[k].running)

\* The listener of the first subscribe has forwarded a frame after the
\* unsubscribe cancelled the handle of that subscribe.
C19_Witness ==
  /\ hw_last = Step("listener_poll", "Notification")
  /\ cancelled = {ChildToken(1)}
  /\ ~subscribed
  /\ listeners[1].running
  /\ frames_in = 1
  /\ events = <<<<"Notification", 1>>>>

\* C20: a listener task has stopped only if its token is cancelled (the
\* inbound channel never closes while the session holds its sender), so
\* while subscribed it keeps forwarding, also after it fell behind.
C20_ListenerStopsOnlyOnCancel ==
  \A i \in DOMAIN listeners : ~listeners[i].running => IsCancelled(listeners[i].token)

\* Two frames came in while the listener held one unread (the capacity of
\* the channel): the listener has exited, still subscribed, and forwarded
\* neither of them.
C20_Witness ==
  /\ hw_last = Step("listener_poll", "recv")
  /\ subscribed
  /\ cancelled = {}
  /\ ~listeners[1].running
  /\ frames_in = 2
  /\ events = <<>>



\* The listener tasks that have not ended.
LiveListeners == {i \in DOMAIN listeners : listeners[i].running}

\* The Notification events published for the n-th binary frame.
NotificationsOf(n) == {k \in DOMAIN events : events[k] = <<"Notification", n>>}

\* C21: after any sequence of subscribe and unsubscribe calls of one caller
\* on one session (subscribe, unsubscribe, subscribe among them) at most one
\* listener task is alive, and every binary frame received from the socket
\* has produced at most one Notification event.
C21_AtMostOneListener ==
  /\ Cardinality(LiveListeners) <= 1
  /\ \A n \in 1..MaxFrames : Cardinality(NotificationsOf(n)) <= 1

\* subscribe, unsubscribe and subscribe have each completed, one after the
\* other, and the one binary frame received since is on the event channel
\* twice.
C21_Witness ==
  /\ tokens_made = 2
  /\ cancelled = {ChildToken(1)}
  /\ subscribed
  /\ subscribe_token = Some(ChildToken(2))
  /\ futures = <<>>
  /\ frames_in = 1
  /\ events = << <<"Notification", 1>>, <<"Notification", 1>> >>


(***************************************************************************)
(* The command manager after a rejected request.                           *)
(***************************************************************************)
\* The call on record is an update_vibration or update_rotation that
\* returned Err.
FailedUpdate ==
  /\ last.op \in {"update_vibration", "update_rotation"}
  /\ last.res.kind = "err"

\* C22: an update_vibration or update_rotation call that fails validation
\* leaves the last value of every feature and the sent flag of every kind
\* as they were before the call, also when valid subcommands precede the
\* subcommand with the index out of range.
C22_FailedUpdateLeavesState == FailedUpdate => Snapshot = last.pre

\* An update_vibration on a manager that has sent before has returned Err
\* on its second subcommand, after its first subcommand named a feature of
\* the device with a value the feature did not hold.
C22_Witness ==
  /\ FailedUpdate
  /\ last.op = "update_vibration"
  /\ last.pre.sent_vibration
  /\ Len(last.msg) = 2
  /\ ~IndexOutOfRange(last.msg[1].index, Len(vibrations))
  /\ IndexOutOfRange(last.msg[2].index, Len(vibrations))
  /\ Quantize(last.msg[1].speed, vibration_step_counts[last.msg[1].index + 1])
       # last.pre.vibrations[last.msg[1].index + 1]
  /\ vibrations[last.msg[1].index + 1]
       = Quantize(last.msg[1].speed, vibration_step_counts[last.msg[1].index + 1])


(***************************************************************************)
(* The keepalive of the connection loop.                                   *)
(***************************************************************************)
\* C23: the connection loop never returns for want of a Pong at its first
\* keepalive tick: its counter starts at 1, so the loop has returned for
\* want of a Pong only after a tick that sent its Ping, with no Pong since;
\* and a tick after which the loop still runs has set the counter to 0 and
\* sent its one Ping.
C23_KeepaliveExitFollowsProbe ==
  /\ [](history.keepalive_exit => (history.probed /\ ~history.ponged))
  /\ [][(hw_last'.step = "loop_sleep" /\ hw_last'.res = "no pongs")
          => (pong_count = 0 /\ history.probed)]_vars
  /\ [][(hw_last'.step = "loop_sleep" /\ loop_running')
          => (pong_count' = 0 /\ hw_last'.res = "ping" /\ history'.probed)]_vars

\* The first tick has sent its Ping and the loop runs on with the counter
\* at 0; no Pong has come in and no tick has found the counter at 0.
C23_Witness ==
  /\ hw_last = Step("loop_sleep", "ping")
  /\ loop_running
  /\ pong_count = 0
  /\ history.probed
  /\ ~history.ponged
  /\ ~history.keepalive_exit

=============================================================================
